---- MODULE Spec2Model ----
(***************************************************************************)
(* Model of the Polymer relayer backend: the SQLite job / chain_state      *)
(* store (DatabaseService), the per-chain sweep (ChainListener), the job   *)
(* state machine (JobQueue) and the process lifecycle (RelayerApp).        *)
(*                                                                         *)
(* One source chain "A" carries the listener; "B" is the destination.      *)
(* JavaScript runs one synchronous section at a time, so every action is   *)
(* one synchronous section: it starts where a timer fires or an awaited    *)
(* network call settles and ends at the next awaited network call.         *)
(***************************************************************************)
EXTENDS Integers, Sequences, FiniteSets, TLC

VARIABLES
  phase,        \* RelayerApp: "down" | "qinit" | "lpoll" | "lwait" | "up"
  head,         \* block number the RPC of chain A reports
  now,          \* wall clock, milliseconds
  proofRequired,\* eventMappings[0].proofRequired (configuration)
  confirmations,\* chains[A].blockConfirmations (configuration)
  emitted,      \* the matching logs on chain A
  resolver,     \* destinationResolvers[eventMappings[0].destinationResolver] (configuration)
  encoding,     \* ExecutorService.prepareTransactionData: its arguments and what it returns
  swept,        \* history, where recorded: the position the first start wrote to this database and the blocks of its completed sweeps
  runner,       \* JobQueue and ChainListener called method by method: processing / isPolling, the timers, the start calls awaiting their initial tick
  poll,         \* ProofService.pollForProof of one requestProof call
  chain_state,  \* table chain_state: set of rows
  jobs,         \* table jobs: sequence of rows, row i has id = i
  queue,        \* JobQueue.queue: in-memory job objects
  inflight,     \* handlers of the JobQueue awaiting a network call
  ticks,        \* pollForEvents invocations awaiting queryFilter: the range and the head fetched
  initPos,      \* history: cursor the first-start initialisation wrote to this database
  reobserved,   \* history: the last sweep met an existing unique_id in createJobForDestination
  lastSweep,    \* history: how the last queryFilter of this process ended: "none" | "ok" | "error"
  submitted,    \* destination chain: unique_id -> number of transactions sent for it
  failedAttempts \* history: unique_id -> number of handleJobError calls for its row

vars == <<phase, head, now, proofRequired, confirmations, emitted, resolver, encoding, swept, runner, poll, chain_state, jobs, queue, inflight,
          ticks, initPos, reobserved, lastSweep, submitted, failedAttempts>>

\* everything but the poll loop of the ProofService
relayerVars == <<phase, head, now, proofRequired, confirmations, emitted, resolver, encoding, swept, runner, chain_state, jobs,
                 queue, inflight, ticks, initPos, reobserved, lastSweep, submitted,
                 failedAttempts>>

---------------------------------------------------------------------------
\* Bounds of the exploration (MaxClock counts retry delays)
MaxHead == 3
MaxClock == 2
MaxTicks == 2
MaxConfirmations == 2
MaxRetryAttempts == 3
MaxStartCalls == 2

\* Program constants
maxRetries == 3
retryDelayMs == 5000
processingIntervalMs == 1000
sweepSpan == 100
concurrentLimit == 5
blockConfirmations == 1

SourceChain == "A"
Destinations == <<"A", "B">>
DestDeployed == {"B"}

\* The matching logs the source contract emitted on chain A: one transaction
\* with one log, or with two
ChainEvents == { [transactionHash |-> "0xaa", index |-> 0, blockNumber |-> 2] }

TwoEvents == ChainEvents \cup { [transactionHash |-> "0xaa", index |-> 1, blockNumber |-> 2] }

\* one transaction with six logs, one more than a tick of the queue dispatches
BurstEvents ==
  { [transactionHash |-> "0xaa", index |-> i, blockNumber |-> 2] : i \in 0..concurrentLimit }

\* a TokenLocked log in block 2 and a MessageSent log of an earlier transaction
\* in block 1
MappedEvents ==
  { [transactionHash |-> "0xaa", index |-> 0, blockNumber |-> 2, eventName |-> "TokenLocked"],
    [transactionHash |-> "0xbb", index |-> 0, blockNumber |-> 1, eventName |-> "MessageSent"] }

Min(a, b) == IF a <= b THEN a ELSE b

\* no prepareTransactionData call has been made
NoEncoding ==
  [inputs |-> <<>>, args |-> <<>>, proof |-> FALSE, values |-> <<>>, outcome |-> "idle"]

Components == {"JobQueue", "ChainListener"}

\* a component after its constructor: processing / isPolling false, no timer.
\* active is processing / isPolling, handle says that processingInterval /
\* pollingInterval is set, timers counts the setInterval timers not cleared,
\* starting counts the start calls awaiting their initial tick; the rest is
\* history: calls counts the start calls, stopped says that a stop call has
\* returned since the last start call that went ahead, ticked that a timer has
\* fired, late that a timer has fired after such a stop
Constructed ==
  [c \in Components |-> [active |-> FALSE, handle |-> FALSE, timers |-> 0, starting |-> 0,
                         calls |-> 0, stopped |-> FALSE, ticked |-> FALSE, late |-> FALSE]]

\* no record of the sweeps is kept
NoSweeps == [recorded |-> FALSE, origin |-> 0, blocks |-> {}]

\* the record of the sweeps of a database file that no listener has initialised yet
FirstSweeps == [recorded |-> TRUE, origin |-> 0, blocks |-> {}]

---------------------------------------------------------------------------
\* DatabaseService

\* lookup in the unique index on jobs.unique_id, as used by the SELECT of
\* getJobByUniqueId and by the UNIQUE constraint of the INSERT
UniqueIdTaken_Broken(rows, uniqueId) == FALSE

UniqueIdTaken(rows, uniqueId) ==
  \E i \in DOMAIN rows : rows[i].unique_id = uniqueId

getJobByUniqueId(rows, uniqueId) == UniqueIdTaken(rows, uniqueId)

NewRow(uniqueId, pr) ==
  [ unique_id |-> uniqueId, status |-> "pending", proof_required |-> pr,
    proof_data |-> FALSE, retry_count |-> 0, last_retry_at |-> {},
    dest_tx_hash |-> FALSE, completed_at |-> {}, error_message |-> FALSE ]

\* INSERT INTO jobs: the row gets the next AUTOINCREMENT id; a taken
\* unique_id makes the statement throw (the table is left as it was)
createJob(rows, uniqueId, pr) ==
  IF UniqueIdTaken(rows, uniqueId) THEN rows
  ELSE Append(rows, NewRow(uniqueId, pr))

\* updateJobStatus that stamps completed_at on every update
updateJobStatus_StampsAlways(rows, jobId, status, patch, t) ==
  IF jobId \notin DOMAIN rows THEN rows
  ELSE [rows EXCEPT ![jobId] =
          [ @ EXCEPT !.status = status,
                     !.last_retry_at = {t},
                     !.proof_data = IF "proof_data" \in patch THEN TRUE ELSE @,
                     !.dest_tx_hash = IF "dest_tx_hash" \in patch THEN TRUE ELSE @,
                     !.error_message = IF "error_message" \in patch THEN TRUE ELSE @,
                     !.completed_at = {t} ]]

\* UPDATE jobs SET status = ?, last_retry_at = ? [, key = ?]* [, completed_at = ?] WHERE id = ?
updateJobStatus(rows, jobId, status, patch, t) ==
  IF jobId \notin DOMAIN rows THEN rows
  ELSE [rows EXCEPT ![jobId] =
          [ @ EXCEPT !.status = status,
                     !.last_retry_at = {t},
                     !.proof_data = IF "proof_data" \in patch THEN TRUE ELSE @,
                     !.dest_tx_hash = IF "dest_tx_hash" \in patch THEN TRUE ELSE @,
                     !.error_message = IF "error_message" \in patch THEN TRUE ELSE @,
                     !.completed_at = IF status = "completed" THEN {t} ELSE @ ]]

incrementRetryCount(rows, jobId, t) ==
  IF jobId \notin DOMAIN rows THEN rows
  ELSE [rows EXCEPT ![jobId] =
          [ @ EXCEPT !.retry_count = @ + 1, !.last_retry_at = {t} ]]

\* the job object a SELECT * row turns into; only the fields the queue reads
JobObject(rows, i) ==
  [ id |-> i, status |-> rows[i].status,
    proof_required |-> rows[i].proof_required,
    proof_data |-> rows[i].proof_data,
    retry_count |-> rows[i].retry_count,
    last_retry_at |-> rows[i].last_retry_at ]

RECURSIVE PendingIds(_, _)
\* ids of the rows a getPendingJobs query selects, in ascending id, from id i on
PendingIds(rows, i) ==
  IF i > Len(rows) THEN <<>>
  ELSE IF rows[i].status \in {"pending", "proof_requested", "proof_ready"}
       THEN <<i>> \o PendingIds(rows, i + 1)
       ELSE PendingIds(rows, i + 1)

\* WHERE status IN ('pending','proof_requested','proof_ready') ORDER BY created_at ASC
getPendingJobs(rows) ==
  LET ids == PendingIds(rows, 1)
  IN  [k \in DOMAIN ids |-> JobObject(rows, ids[k])]

RetryAt(r) == IF r.last_retry_at = {} THEN 0 ELSE CHOOSE t \in r.last_retry_at : TRUE

RECURSIVE OrderByRetryAt(_, _)
OrderByRetryAt(rows, ids) ==
  IF ids = {} THEN <<>>
  ELSE LET m == CHOOSE i \in ids : \A j \in ids :
                   \/ RetryAt(rows[i]) < RetryAt(rows[j])
                   \/ RetryAt(rows[i]) = RetryAt(rows[j]) /\ i <= j
       IN <<m>> \o OrderByRetryAt(rows, ids \ {m})

\* WHERE status = 'failed' AND retry_count < ? ORDER BY last_retry_at ASC
getFailedJobs(rows, limit) ==
  LET ids == OrderByRetryAt(rows,
               { i \in DOMAIN rows : rows[i].status = "failed" /\ rows[i].retry_count < limit })
  IN  [k \in DOMAIN ids |-> JobObject(rows, ids[k])]

HasChainRow(cs, c) == \E r \in cs : r.chain_name = c

\* result?.last_processed_block || 0
getLastProcessedBlock(cs, c) ==
  IF HasChainRow(cs, c)
  THEN (CHOOSE r \in cs : r.chain_name = c).last_processed_block
  ELSE 0

\* INSERT OR REPLACE INTO chain_state
updateLastProcessedBlock(cs, c, b) ==
  { r \in cs : r.chain_name # c } \cup { [chain_name |-> c, last_processed_block |-> b] }

---------------------------------------------------------------------------
\* DestinationResolverService

RECURSIVE FilterOut(_, _)
FilterOut(s, x) ==
  IF s = <<>> THEN <<>>
  ELSE IF Head(s) = x THEN FilterOut(Tail(s), x)
       ELSE <<Head(s)>> \o FilterOut(Tail(s), x)

\* resolveStatic that returns the configured list as it is
resolveStatic_KeepsSource(destinations, sourceChain) == destinations

\* resolver.destinations.filter(dest => dest !== sourceChain)
resolveStatic(destinations, sourceChain) == FilterOut(destinations, sourceChain)

\* the resolver of the documented configuration
StaticResolver ==
  [ type |-> "static", destinations |-> Destinations,
    parameterName |-> "", hasMapping |-> FALSE, mapping |-> <<>> ]

\* event.args ? event.args.toObject() : {}
EventArgs(event) == IF "args" \in DOMAIN event THEN event.args ELSE <<>>

\* paramValue.toString(): a string is itself, a bigint its decimal digits
Digits == <<"1", "2", "3", "4", "5", "6", "7", "8", "9">>

toString(value) == IF value.kind = "string" THEN value.s ELSE Digits[value.n]

Resolved(chains) == [ok |-> TRUE, chains |-> chains]

ResolverError == [ok |-> FALSE, chains |-> <<>>]

\* resolveFromEventParameter that ignores the mapping table
resolveFromEventParameter_NoLookup(r, args) ==
  IF r.parameterName = "" THEN ResolverError
  ELSE IF r.parameterName \notin DOMAIN args THEN ResolverError
  ELSE Resolved(<<toString(args[r.parameterName])>>)

resolveFromEventParameter(r, args) ==
  IF r.parameterName = "" THEN ResolverError
  ELSE IF r.parameterName \notin DOMAIN args THEN ResolverError
  ELSE LET paramValueStr == toString(args[r.parameterName]) IN
       IF r.hasMapping
       THEN IF paramValueStr \in DOMAIN r.mapping
            THEN Resolved(<<r.mapping[paramValueStr]>>)
            ELSE ResolverError
       ELSE Resolved(<<paramValueStr>>)

\* resolveDestinations: the switch on resolver.type; every throw is rethrown
resolveDestinations(r, event, sourceChain) ==
  CASE r.type = "eventParameter" -> resolveFromEventParameter(r, EventArgs(event))
    [] r.type = "static" ->
         IF r.destinations = <<>> THEN ResolverError
         ELSE Resolved(resolveStatic(r.destinations, sourceChain))
    [] OTHER -> ResolverError

---------------------------------------------------------------------------
\* ChainListener

EventKeyLess(e, f) ==
  \/ e.blockNumber < f.blockNumber
  \/ e.blockNumber = f.blockNumber /\ e.index <= f.index

RECURSIVE InLogOrder(_)
InLogOrder(es) ==
  IF es = {} THEN <<>>
  ELSE LET m == CHOOSE e \in es : \A f \in es : EventKeyLess(e, f)
       IN <<m>> \o InLogOrder(es \ {m})

\* sourceEvent.eventName of the enabled mappings on the source chain, in the
\* order pollForEvents and processContractEvents reach them
eventMappings == <<"TokenLocked", "MessageSent">>

\* the event a log is an instance of; a log that does not say is a TokenLocked
EventName(e) == IF "eventName" \in DOMAIN e THEN e.eventName ELSE eventMappings[1]

\* contract.queryFilter(contract.filters[eventName](), fromBlock, toBlock)
queryFilter(eventName, fromBlock, toBlock) ==
  InLogOrder({ e \in emitted : /\ EventName(e) = eventName
                               /\ fromBlock <= e.blockNumber
                               /\ e.blockNumber <= toBlock })

BaseJobId(event) == <<SourceChain, event.transactionHash, event.index>>

\* `${baseJobId}-${destChain}`
UniqueId(event, destChain) == BaseJobId(event) \o <<destChain>>

\* createJobForDestination that writes the row again for a unique_id it finds
createJobForDestination_Rewrite(st, event, destChain) ==
  LET uniqueId == UniqueId(event, destChain) IN
  IF getJobByUniqueId(st.jobs, uniqueId)
  THEN [st EXCEPT !.reobserved = TRUE,
                  !.jobs = [i \in DOMAIN @ |->
                              IF @[i].unique_id = uniqueId
                              THEN NewRow(uniqueId, proofRequired) ELSE @[i]]]
  ELSE LET rows == createJob(st.jobs, uniqueId, proofRequired) IN
       [st EXCEPT !.jobs = rows,
                  !.queue = Append(@, JobObject(rows, Len(rows)))]

\* st = [jobs, queue, reobserved]; the listener state one event handler threads through
createJobForDestination(st, event, destChain) ==
  LET uniqueId == UniqueId(event, destChain) IN
  IF getJobByUniqueId(st.jobs, uniqueId)
  THEN [st EXCEPT !.reobserved = TRUE]
  ELSE LET rows == createJob(st.jobs, uniqueId, proofRequired) IN
       IF Len(rows) = Len(st.jobs) THEN st
       ELSE [st EXCEPT !.jobs = rows,
                       !.queue = Append(@, [ id |-> Len(rows), status |-> "pending",
                                             proof_required |-> proofRequired,
                                             proof_data |-> FALSE, retry_count |-> 0,
                                             last_retry_at |-> {} ])]

RECURSIVE CreateJobs(_, _, _)
\* for (const destChain of destinationChains): a destination whose contract
\* is not deployed makes getDestinationCallDetails throw, which ends the loop
CreateJobs(st, event, dests) ==
  IF dests = <<>> THEN st
  ELSE IF Head(dests) \notin DestDeployed THEN st
       ELSE CreateJobs(createJobForDestination(st, event, Head(dests)), event, Tail(dests))

processEvent(st, event) ==
  IF getJobByUniqueId(st.jobs, BaseJobId(event)) THEN st
  ELSE LET destinationChains == resolveDestinations(resolver, event, SourceChain) IN
       IF destinationChains.ok THEN CreateJobs(st, event, destinationChains.chains)
       ELSE st

RECURSIVE ProcessEvents(_, _)
ProcessEvents(st, events) ==
  IF events = <<>> THEN st
  ELSE ProcessEvents(processEvent(st, Head(events)), Tail(events))

\* for (const mapping of contractMappings): one query per mapping, each
\* followed by the processing of its events
RECURSIVE processContractEvents(_, _, _, _)
processContractEvents(st, mappings, fromBlock, toBlock) ==
  IF mappings = <<>> THEN st
  ELSE processContractEvents(
         ProcessEvents(st, queryFilter(Head(mappings), fromBlock, toBlock)),
         Tail(mappings), fromBlock, toBlock)

RemoveAt(s, k) == [i \in 1..(Len(s) - 1) |-> IF i < k THEN s[i] ELSE s[i + 1]]

RangeLess(r, t) ==
  \/ r.fromBlock < t.fromBlock
  \/ r.fromBlock = t.fromBlock /\ r.toBlock < t.toBlock
  \/ r.fromBlock = t.fromBlock /\ r.toBlock = t.toBlock /\ r.currentBlock <= t.currentBlock

RECURSIVE AddSweep(_, _)
\* the pending sweeps with one more; any of them may settle next, so
\* they are kept in the order of their ranges
AddSweep(s, t) ==
  IF s = <<>> THEN <<t>>
  ELSE IF RangeLess(t, Head(s)) THEN <<t>> \o s
       ELSE <<Head(s)>> \o AddSweep(Tail(s), t)

---------------------------------------------------------------------------
\* JobQueue.  qs = [jobs, queue, inflight, failedAttempts] is the state the
\* synchronous part of a tick threads through its handlers.

Push(qs, job) == [qs EXCEPT !.queue = Append(@, job)]

Await(qs, kind, job) ==
  [qs EXCEPT !.inflight = @ \cup { [kind |-> kind, job |-> job, sent |-> FALSE] }]

\* processProofRequest up to its first awaited network call
processProofRequest(qs, job) ==
  IF ~job.proof_required
  THEN Push([qs EXCEPT !.jobs = updateJobStatus(@, job.id, "proof_ready", {}, now)],
            [job EXCEPT !.status = "proof_ready"])
  ELSE Await([qs EXCEPT !.jobs = updateJobStatus(@, job.id, "proof_requested", {}, now)],
             "proof", job)

\* processExecution without its status update
processExecution_NoStatus(qs, job) == Await(qs, "exec", job)

\* processExecution up to executor.executeTransaction
processExecution(qs, job) ==
  Await([qs EXCEPT !.jobs = updateJobStatus(@, job.id, "executing", {}, now)],
        "exec", job)

\* job.last_retry_at ? Date.now() - new Date(job.last_retry_at).getTime() : retryDelayMs + 1
timeSinceLastRetry(job) ==
  IF job.last_retry_at = {} THEN retryDelayMs + 1
  ELSE now - (CHOOSE t \in job.last_retry_at : TRUE)

RetriesExhausted_OffByOne(job) == job.retry_count > maxRetries

\* job.retry_count >= this.maxRetries
RetriesExhausted(job) == job.retry_count >= maxRetries

\* a retry that always resumes at the execution
RetryStatus_AlwaysReady(job) == "proof_ready"

\* a retry that always starts again from the proof request
RetryStatus_AlwaysPending(job) == "pending"

\* job.proof_required && !job.proof_data ? 'pending' : 'proof_ready'
RetryStatus(job) ==
  IF job.proof_required /\ ~job.proof_data THEN "pending" ELSE "proof_ready"

\* processRetry that re-admits the job without counting the retry
processRetry_Uncounted(qs, job) ==
  IF timeSinceLastRetry(job) < retryDelayMs THEN Push(qs, job)
  ELSE IF RetriesExhausted(job) THEN qs
  ELSE Push([qs EXCEPT !.jobs = updateJobStatus(@, job.id, RetryStatus(job), {}, now)],
            [job EXCEPT !.status = RetryStatus(job)])

processRetry(qs, job) ==
  IF timeSinceLastRetry(job) < retryDelayMs THEN Push(qs, job)
  ELSE IF RetriesExhausted(job) THEN qs
  ELSE Push([qs EXCEPT !.jobs = updateJobStatus(incrementRetryCount(@, job.id, now),
                                                job.id, RetryStatus(job), {}, now)],
            [job EXCEPT !.status = RetryStatus(job), !.retry_count = @ + 1])

\* handleJobError that does not put the job back on the work list
handleJobError_NoRequeue(qs, job) ==
  LET uid == qs.jobs[job.id].unique_id IN
  [qs EXCEPT !.jobs = updateJobStatus(@, job.id, "failed", {"error_message"}, now),
             !.failedAttempts[uid] = @ + 1]

\* handleJobError that counts the failure in retry_count
handleJobError_Counts(qs, job) ==
  LET uid == qs.jobs[job.id].unique_id IN
  Push([qs EXCEPT !.jobs = updateJobStatus(incrementRetryCount(@, job.id, now),
                                           job.id, "failed", {"error_message"}, now),
                  !.failedAttempts[uid] = @ + 1],
       [job EXCEPT !.status = "failed"])

\* the catch branch of processJob
handleJobError(qs, job) ==
  LET uid == qs.jobs[job.id].unique_id IN
  Push([qs EXCEPT !.jobs = updateJobStatus(@, job.id, "failed", {"error_message"}, now),
                  !.failedAttempts[uid] = @ + 1],
       [job EXCEPT !.status = "failed"])

\* processJob with no processor registered for failed
processJob_NoRetry(qs, job) ==
  CASE job.status = "pending"     -> processProofRequest(qs, job)
    [] job.status = "proof_ready" -> processExecution(qs, job)
    [] OTHER                      -> qs

\* registerProcessors: pending, proof_ready and failed have a processor
processJob(qs, job) ==
  CASE job.status = "pending"     -> processProofRequest(qs, job)
    [] job.status = "proof_ready" -> processExecution(qs, job)
    [] job.status = "failed"      -> processRetry(qs, job)
    [] OTHER                      -> qs

RECURSIVE Dispatch(_, _)
Dispatch(qs, batch) ==
  IF batch = <<>> THEN qs
  ELSE Dispatch(processJob(qs, Head(batch)), Tail(batch))

\* processQueue that leaves the dispatched jobs on the work list
processQueue_KeepsBatch(qs) ==
  IF qs.queue = <<>>
  THEN [qs EXCEPT !.queue = getFailedJobs(qs.jobs, maxRetries)]
  ELSE Dispatch(qs, SubSeq(qs.queue, 1, Min(concurrentLimit, Len(qs.queue))))

\* processQueue up to await Promise.allSettled
processQueue(qs) ==
  IF qs.queue = <<>>
  THEN [qs EXCEPT !.queue = getFailedJobs(qs.jobs, maxRetries)]
  ELSE LET n == Min(concurrentLimit, Len(qs.queue)) IN
       Dispatch([qs EXCEPT !.queue = SubSeq(@, n + 1, Len(@))], SubSeq(qs.queue, 1, n))

QueueState == [jobs |-> jobs, queue |-> queue, inflight |-> inflight,
               failedAttempts |-> failedAttempts]

SetQueueState(qs) ==
  /\ jobs' = qs.jobs
  /\ queue' = qs.queue
  /\ inflight' = qs.inflight
  /\ failedAttempts' = qs.failedAttempts

---------------------------------------------------------------------------
\* ProofService.requestProof.  poll = [attempt, calls, last, outcome, request]: the
\* loop counter, the polymer_queryProof calls made, the last response and
\* how the call ended ("idle" before it starts, "polling" while it runs).

maxPollingAttempts == 30

\* what one polymer_queryProof call can come back with: a status, a complete
\* status without proof, a JSON-RPC error object, or a transport failure
Responses ==
  {"complete", "complete_noproof", "pending", "initialized", "unknown", "error",
   "rpc_error", "network"}

\* proofApi.retryAttempts of the documented configuration
retryAttempts == 3

\* requestProofJob: the configured attempts, the loop counter, the
\* polymer_requestProof calls made, the last response and the backoff delay
RequestIdle ==
  [retryAttempts |-> retryAttempts, attempt |-> 0, calls |-> 0, last |-> "none", delay |-> 0]

PollIdle ==
  [attempt |-> 0, calls |-> 0, last |-> "none", outcome |-> "idle", request |-> RequestIdle]

\* what one polymer_requestProof call can come back with: a numeric jobID, a
\* result that is no number, a JSON-RPC error object, or a transport failure
RequestResponses == {"jobID", "no_number", "rpc_error", "network"}

RECURSIVE pow(_, _)
\* Math.pow(base, exponent) for a natural exponent
pow(base, exponent) == IF exponent = 0 THEN 1 ELSE base * pow(base, exponent - 1)

\* a backoff of one second after every failed attempt
backoffDelay_Fixed(attempt) == 1000

\* Math.pow(2, attempt - 1) * 1000
backoffDelay(attempt) == pow(2, attempt - 1) * 1000

\* one iteration of the for loop of requestProofJob: the call, the checks of
\* its response and the catch block
requestStep(p, response) ==
  LET q == [p EXCEPT !.request.calls = @ + 1, !.request.last = response] IN
  IF response = "jobID" THEN [q EXCEPT !.attempt = 1, !.outcome = "polling"]
  ELSE IF p.request.attempt = p.request.retryAttempts
       THEN [q EXCEPT !.outcome = "request_failed"]
       ELSE [q EXCEPT !.request.delay = backoffDelay(p.request.attempt),
                      !.outcome = "backoff"]

\* the responses that throw inside the try block land in its catch, which
\* rethrows only in the last attempt
Throws(response, attempt) ==
  /\ response \in {"complete_noproof", "error", "rpc_error", "network"}
  /\ attempt = maxPollingAttempts

\* the for loop without its upper limit
LoopEnds_Unbounded(attempt) == FALSE

\* attempt <= this.maxPollingAttempts fails after the increment
LoopEnds(attempt) == attempt = maxPollingAttempts

\* one iteration of the for loop: the call and the switch on its response
pollStep(p, response) ==
  LET q == [p EXCEPT !.calls = @ + 1, !.last = response] IN
  IF response = "complete" THEN [q EXCEPT !.outcome = "proof"]
  ELSE IF Throws(response, p.attempt) THEN [q EXCEPT !.outcome = "gave_up"]
  ELSE IF LoopEnds(p.attempt) THEN [q EXCEPT !.outcome = "timeout"]
  ELSE [q EXCEPT !.attempt = @ + 1]

---------------------------------------------------------------------------
AllUniqueIds == { UniqueId(e, d) : e \in TwoEvents, d \in DestDeployed }

\* the same for the logs of two mappings and for a burst of logs
MoreUniqueIds ==
  { UniqueId(e, d) : e \in BurstEvents \cup MappedEvents, d \in DestDeployed }

Init ==
  /\ phase = "down"
  /\ head = 1
  /\ now = 0
  /\ proofRequired \in BOOLEAN
  /\ confirmations = blockConfirmations
  /\ emitted = ChainEvents
  /\ resolver = StaticResolver
  /\ encoding = NoEncoding
  /\ swept = NoSweeps
  /\ runner = Constructed
  /\ poll = PollIdle
  /\ chain_state = {}
  /\ jobs = <<>>
  /\ queue = <<>>
  /\ inflight = {}
  /\ ticks = <<>>
  /\ initPos = 0
  /\ reobserved = FALSE
  /\ lastSweep = "none"
  /\ submitted = [u \in AllUniqueIds |-> 0]
  /\ failedAttempts = [u \in AllUniqueIds |-> 0]

\* the chain produces a block
HeadGrows ==
  /\ head < MaxHead
  /\ head' = head + 1
  /\ UNCHANGED <<phase, now, proofRequired, confirmations, emitted, resolver, encoding, swept, runner, poll, chain_state, jobs, queue, inflight,
                 ticks, initPos, reobserved, lastSweep, submitted, failedAttempts>>

\* the chain produces a hundred blocks while no poll looks at it
HeadJumps ==
  /\ head <= MaxHead
  /\ head' = head + sweepSpan
  /\ UNCHANGED <<phase, now, proofRequired, confirmations, emitted, resolver, encoding, swept, runner, poll, chain_state, jobs, queue, inflight,
                 ticks, initPos, reobserved, lastSweep, submitted, failedAttempts>>

\* Date.now() is read only to stamp rows and to compare the time since
\* last_retry_at with retryDelayMs, so time advances by that much at once
ClockTick ==
  /\ now < MaxClock * retryDelayMs
  /\ now' = now + retryDelayMs
  /\ UNCHANGED <<phase, head, proofRequired, confirmations, emitted, resolver, encoding, swept, runner, poll, chain_state, jobs, queue, inflight,
                 ticks, initPos, reobserved, lastSweep, submitted, failedAttempts>>

\* new RelayerApp(config) and start() up to the await inside startProcessing:
\* the JobQueue constructor loads the pending jobs, startProcessing runs the
\* first processQueue
Start ==
  /\ phase = "down"
  /\ phase' = "qinit"
  /\ SetQueueState(processQueue([QueueState EXCEPT !.queue = getPendingJobs(jobs),
                                                   !.inflight = {}]))
  /\ ticks' = <<>>
  /\ UNCHANGED <<head, now, proofRequired, confirmations, emitted, resolver, encoding, swept, runner, poll, chain_state, initPos, reobserved, lastSweep, submitted>>

\* the process ends without running stop(): the memory is lost, the database file stays
Exit ==
  /\ phase' = "down"
  /\ queue' = <<>>
  /\ inflight' = {}
  /\ ticks' = <<>>
  /\ reobserved' = FALSE
  /\ lastSweep' = "none"

Crash ==
  /\ phase # "down"
  /\ Exit
  /\ UNCHANGED <<head, now, proofRequired, confirmations, emitted, resolver, encoding, swept, runner, poll, chain_state, jobs, initPos, submitted,
                 failedAttempts>>

\* startPolling up to its initial poll, entered once the first processQueue
\* of startProcessing has settled; a failing getBlockNumber ends start() in process.exit(1)
ListenerInit ==
  /\ phase = "qinit"
  /\ inflight = {}
  /\ \E rpcOk \in BOOLEAN :
       IF getLastProcessedBlock(chain_state, SourceChain) # 0
       THEN /\ phase' = "lpoll"
            /\ UNCHANGED <<chain_state, initPos, swept, queue, inflight, ticks, reobserved, lastSweep>>
       ELSE IF rpcOk
            THEN /\ phase' = "lpoll"
                 /\ chain_state' = updateLastProcessedBlock(chain_state, SourceChain,
                                                            head - confirmations)
                 /\ initPos' = head - confirmations
                 /\ swept' = IF swept.recorded /\ ~HasChainRow(chain_state, SourceChain)
                             THEN [swept EXCEPT !.origin = head - confirmations, !.blocks = {}]
                             ELSE swept
                 /\ UNCHANGED <<queue, inflight, ticks, reobserved, lastSweep>>
            ELSE /\ Exit
                 /\ UNCHANGED <<chain_state, initPos, swept>>
  /\ UNCHANGED <<head, now, proofRequired, confirmations, emitted, resolver, encoding, runner, poll, jobs, submitted, failedAttempts>>

\* the range of a sweep that takes the head itself for the safe block
SweepRange_Unconfirmed ==
  LET lastProcessedBlock == getLastProcessedBlock(chain_state, SourceChain)
      fromBlock == lastProcessedBlock + 1
  IN  IF head <= lastProcessedBlock THEN <<>>
      ELSE << [fromBlock |-> fromBlock, toBlock |-> Min(head, fromBlock + sweepSpan),
               currentBlock |-> head] >>

\* pollForEvents from getBlockNumber to the awaited queryFilter:
\* the range of the sweep, or <<>> when there is no new confirmed block
SweepRange ==
  LET lastProcessedBlock == getLastProcessedBlock(chain_state, SourceChain)
      safeBlock == head - confirmations
      fromBlock == lastProcessedBlock + 1
  IN  IF safeBlock <= lastProcessedBlock THEN <<>>
      ELSE << [fromBlock |-> fromBlock, toBlock |-> Min(safeBlock, fromBlock + sweepSpan),
               currentBlock |-> head] >>

\* the initial poll of startPolling
InitialPoll ==
  /\ phase = "lpoll"
  /\ \E rpcOk \in BOOLEAN :
       IF ~rpcOk THEN Exit
       ELSE /\ ticks' = SweepRange
            /\ phase' = IF SweepRange = <<>> THEN "up" ELSE "lwait"
            /\ UNCHANGED <<queue, inflight, reobserved, lastSweep>>
  /\ UNCHANGED <<head, now, proofRequired, confirmations, emitted, resolver, encoding, swept, runner, poll, chain_state, jobs, initPos, submitted,
                 failedAttempts>>

\* a poll fired by setInterval; a failing getBlockNumber is logged and changes nothing
PollForEvents ==
  /\ phase = "up"
  /\ Len(ticks) < MaxTicks
  /\ \E rpcOk \in BOOLEAN :
       ticks' = IF rpcOk /\ SweepRange # <<>> THEN AddSweep(ticks, SweepRange[1]) ELSE ticks
  /\ UNCHANGED <<phase, head, now, proofRequired, confirmations, emitted, resolver, encoding, swept, runner, poll, chain_state, jobs, queue, inflight,
                 initPos, reobserved, lastSweep, submitted, failedAttempts>>

SweepDone(k) ==
  /\ ticks' = RemoveAt(ticks, k)
  /\ phase' = IF phase = "lwait" THEN "up" ELSE phase
  /\ chain_state' = updateLastProcessedBlock(chain_state, SourceChain, ticks[k].toBlock)
  /\ swept' = IF swept.recorded
              THEN [swept EXCEPT !.blocks = @ \cup (ticks[k].fromBlock..ticks[k].toBlock)]
              ELSE swept

\* queryFilter resolves: every event is processed, then the cursor is written
QueryReturns(k) ==
  /\ k \in DOMAIN ticks
  /\ LET st == processContractEvents([jobs |-> jobs, queue |-> queue, reobserved |-> FALSE],
                                     eventMappings, ticks[k].fromBlock, ticks[k].toBlock)
     IN  /\ jobs' = st.jobs
         /\ queue' = st.queue
         /\ reobserved' = st.reobserved
  /\ lastSweep' = "ok"
  /\ SweepDone(k)
  /\ UNCHANGED <<head, now, proofRequired, confirmations, emitted, resolver, encoding, runner, poll, inflight, initPos, submitted, failedAttempts>>

\* queryFilter rejects: processContractEvents logs the error and returns normally
QueryFails(k) ==
  /\ k \in DOMAIN ticks
  /\ SweepDone(k)
  /\ lastSweep' = "error"
  /\ reobserved' = FALSE
  /\ UNCHANGED <<head, now, proofRequired, confirmations, emitted, resolver, encoding, runner, poll, jobs, queue, inflight, initPos, submitted,
                 failedAttempts>>

\* a processQueue fired by setInterval
QueueTick ==
  /\ phase \in {"lpoll", "lwait", "up"}
  /\ SetQueueState(processQueue(QueueState))
  /\ UNCHANGED <<phase, head, now, proofRequired, confirmations, emitted, resolver, encoding, swept, runner, poll, chain_state, ticks, initPos,
                 reobserved, lastSweep, submitted>>

Settle(h, qs) ==
  /\ SetQueueState([qs EXCEPT !.inflight = @ \ {h}])
  /\ UNCHANGED <<phase, head, now, proofRequired, confirmations, emitted, resolver, encoding, swept, runner, poll, chain_state, ticks, initPos, reobserved, lastSweep>>

\* proofService.requestProof resolves
ProofSucceeds(h) ==
  /\ h \in inflight /\ h.kind = "proof"
  /\ Settle(h, Push([QueueState EXCEPT
                       !.jobs = updateJobStatus(@, h.job.id, "proof_ready", {"proof_data"}, now)],
                    [h.job EXCEPT !.status = "proof_ready", !.proof_data = TRUE]))
  /\ UNCHANGED submitted

\* proofService.requestProof (or JSON.parse before it) throws
ProofFails(h) ==
  /\ h \in inflight /\ h.kind = "proof"
  /\ Settle(h, handleJobError(QueueState, h.job))
  /\ UNCHANGED submitted

\* executeTransaction sends the transaction and goes on to tx.wait
ExecSends(h) ==
  /\ h \in inflight /\ h.kind = "exec" /\ ~h.sent
  /\ inflight' = (inflight \ {h}) \cup {[h EXCEPT !.sent = TRUE]}
  /\ submitted' = [submitted EXCEPT ![jobs[h.job.id].unique_id] = @ + 1]
  /\ UNCHANGED <<phase, head, now, proofRequired, confirmations, emitted, resolver, encoding, swept, runner, poll, chain_state, jobs, queue, ticks,
                 initPos, reobserved, lastSweep, failedAttempts>>

\* executeTransaction throws before sending (no wallet, encoding, estimateGas)
ExecRejected(h) ==
  /\ h \in inflight /\ h.kind = "exec" /\ ~h.sent
  /\ Settle(h, handleJobError(QueueState, h.job))
  /\ UNCHANGED submitted

\* tx.wait resolves with status 1
ExecConfirmed(h) ==
  /\ h \in inflight /\ h.kind = "exec" /\ h.sent
  /\ Settle(h, [QueueState EXCEPT
                  !.jobs = updateJobStatus(@, h.job.id, "completed", {"dest_tx_hash"}, now)])
  /\ UNCHANGED submitted

\* tx.wait throws, or the receipt status is not 1
ExecReverted(h) ==
  /\ h \in inflight /\ h.kind = "exec" /\ h.sent
  /\ Settle(h, handleJobError(QueueState, h.job))
  /\ UNCHANGED submitted

\* SIGINT / SIGTERM: stop() closes the database and unlinks ./relayer.db,
\* which is the configured database.path; then process.exit(0)
Stop ==
  /\ phase = "up"
  /\ Exit
  /\ jobs' = <<>>
  /\ chain_state' = {}
  /\ initPos' = 0
  /\ swept' = [swept EXCEPT !.origin = 0, !.blocks = {}]
  /\ failedAttempts' = [u \in DOMAIN failedAttempts |-> 0]
  /\ UNCHANGED <<head, now, proofRequired, confirmations, emitted, resolver, encoding, runner, poll, submitted>>

Next ==
  \/ HeadGrows
  \/ ClockTick
  \/ Start
  \/ Crash
  \/ Stop
  \/ ListenerInit
  \/ InitialPoll
  \/ PollForEvents
  \/ \E k \in 1..MaxTicks : QueryReturns(k)
  \/ \E k \in 1..MaxTicks : QueryFails(k)
  \/ QueueTick
  \/ \E h \in inflight : ProofSucceeds(h)
  \/ \E h \in inflight : ProofFails(h)
  \/ \E h \in inflight : ExecSends(h)
  \/ \E h \in inflight : ExecRejected(h)
  \/ \E h \in inflight : ExecConfirmed(h)
  \/ \E h \in inflight : ExecReverted(h)

Spec == Init /\ [][Next]_vars

\* A run of one process that is neither killed nor told to stop, in which the
\* queue timer keeps firing and every call to the proof API and to the
\* destination RPC settles.  The clock stands still: processRetry reads it
\* only to hold a retry back until enough time has passed, so this is the
\* hardest case for a job to make progress.
NextNoCrash ==
  \/ HeadGrows
  \/ Start
  \/ ListenerInit
  \/ InitialPoll
  \/ PollForEvents
  \/ \E k \in 1..MaxTicks : QueryReturns(k)
  \/ \E k \in 1..MaxTicks : QueryFails(k)
  \/ QueueTick
  \/ \E h \in inflight : ProofSucceeds(h)
  \/ \E h \in inflight : ProofFails(h)
  \/ \E h \in inflight : ExecSends(h)
  \/ \E h \in inflight : ExecRejected(h)
  \/ \E h \in inflight : ExecConfirmed(h)
  \/ \E h \in inflight : ExecReverted(h)

\* The relayer on a chain whose head runs far ahead of the cursor, for either
\* confirmation depth
SweepInit ==
  /\ phase = "down"
  /\ head = 1
  /\ now = 0
  /\ proofRequired = FALSE
  /\ confirmations \in 0..MaxConfirmations
  /\ emitted = ChainEvents
  /\ resolver = StaticResolver
  /\ encoding = NoEncoding
  /\ swept = FirstSweeps
  /\ runner = Constructed
  /\ poll = PollIdle
  /\ chain_state = {}
  /\ jobs = <<>>
  /\ queue = <<>>
  /\ inflight = {}
  /\ ticks = <<>>
  /\ initPos = 0
  /\ reobserved = FALSE
  /\ lastSweep = "none"
  /\ submitted = [u \in AllUniqueIds |-> 0]
  /\ failedAttempts = [u \in AllUniqueIds |-> 0]

SweepNext ==
  \/ HeadGrows
  \/ HeadJumps
  \/ Start
  \/ Crash
  \/ ListenerInit
  \/ InitialPoll
  \/ PollForEvents
  \/ \E k \in 1..MaxTicks : QueryReturns(k)
  \/ \E k \in 1..MaxTicks : QueryFails(k)
  \/ QueueTick
  \/ \E h \in inflight : ExecSends(h)
  \/ \E h \in inflight : ExecConfirmed(h)

SweepSpec == SweepInit /\ [][SweepNext]_vars

\* the ProofService object between two requestProof calls
Idle(p) == [PollIdle EXCEPT !.request.retryAttempts = p.request.retryAttempts]

\* One requestProof call after another.  requestProof enters requestProofJob,
\* whose for loop is not entered when retryAttempts is below 1
PollStart ==
  /\ poll.outcome = "idle"
  /\ poll' = IF 1 <= poll.request.retryAttempts
             THEN [Idle(poll) EXCEPT !.request.attempt = 1, !.outcome = "requesting"]
             ELSE [Idle(poll) EXCEPT !.outcome = "request_failed"]
  /\ UNCHANGED relayerVars

\* axios.post of polymer_requestProof settles
RequestProofJob ==
  /\ poll.outcome = "requesting"
  /\ \E response \in RequestResponses : poll' = requestStep(poll, response)
  /\ UNCHANGED relayerVars

\* the setTimeout of the backoff fires and the loop goes to its next attempt
BackoffEnds ==
  /\ poll.outcome = "backoff"
  /\ poll' = [poll EXCEPT !.request.attempt = @ + 1, !.outcome = "requesting"]
  /\ UNCHANGED relayerVars

QueryProof ==
  /\ poll.outcome = "polling"
  /\ \E response \in Responses : poll' = pollStep(poll, response)
  /\ UNCHANGED relayerVars

PollReturns ==
  /\ poll.outcome \in {"proof", "timeout", "gave_up", "request_failed"}
  /\ poll' = Idle(poll)
  /\ UNCHANGED relayerVars

PollNext == PollStart \/ RequestProofJob \/ BackoffEnds \/ QueryProof \/ PollReturns

\* a ProofService for every configured number of attempts; the relayer is down
PollInit ==
  /\ phase = "down"
  /\ head = 1
  /\ now = 0
  /\ proofRequired = TRUE
  /\ confirmations = blockConfirmations
  /\ emitted = ChainEvents
  /\ resolver = StaticResolver
  /\ encoding = NoEncoding
  /\ swept = NoSweeps
  /\ runner = Constructed
  /\ poll \in { [PollIdle EXCEPT !.request.retryAttempts = r] : r \in 0..MaxRetryAttempts }
  /\ chain_state = {}
  /\ jobs = <<>>
  /\ queue = <<>>
  /\ inflight = {}
  /\ ticks = <<>>
  /\ initPos = 0
  /\ reobserved = FALSE
  /\ lastSweep = "none"
  /\ submitted = [u \in AllUniqueIds |-> 0]
  /\ failedAttempts = [u \in AllUniqueIds |-> 0]

PollSpec == PollInit /\ [][PollNext]_vars

\* The relayer on a chain where one transaction emitted two matching logs,
\* in one process that is not killed, up to the end of the jobs of its initial poll
TwoInit ==
  /\ phase = "down"
  /\ head = 1
  /\ now = 0
  /\ proofRequired \in BOOLEAN
  /\ confirmations = blockConfirmations
  /\ emitted = TwoEvents
  /\ resolver = StaticResolver
  /\ encoding = NoEncoding
  /\ swept = NoSweeps
  /\ runner = Constructed
  /\ poll = PollIdle
  /\ chain_state = {}
  /\ jobs = <<>>
  /\ queue = <<>>
  /\ inflight = {}
  /\ ticks = <<>>
  /\ initPos = 0
  /\ reobserved = FALSE
  /\ lastSweep = "none"
  /\ submitted = [u \in AllUniqueIds |-> 0]
  /\ failedAttempts = [u \in AllUniqueIds |-> 0]

TwoNext ==
  \/ HeadGrows
  \/ Start
  \/ ListenerInit
  \/ InitialPoll
  \/ \E k \in 1..MaxTicks : QueryReturns(k)
  \/ QueueTick
  \/ \E h \in inflight : ProofSucceeds(h)
  \/ \E h \in inflight : ProofFails(h)
  \/ \E h \in inflight : ExecSends(h)
  \/ \E h \in inflight : ExecRejected(h)
  \/ \E h \in inflight : ExecConfirmed(h)
  \/ \E h \in inflight : ExecReverted(h)

TwoSpec == TwoInit /\ [][TwoNext]_vars

CallsSettle ==
  /\ WF_vars(\E h \in inflight : ProofSucceeds(h) \/ ProofFails(h))
  /\ WF_vars(\E h \in inflight : ExecSends(h) \/ ExecRejected(h))
  /\ WF_vars(\E h \in inflight : ExecConfirmed(h) \/ ExecReverted(h))

LiveSpec == Init /\ [][NextNoCrash]_vars /\ WF_vars(QueueTick) /\ CallsSettle

TypeOK ==
  /\ phase \in {"down", "qinit", "lpoll", "lwait", "up"}
  /\ head \in 1..(MaxHead + sweepSpan)
  /\ Len(ticks) <= MaxTicks

---------------------------------------------------------------------------
\* Vocabulary of the properties

RowsWith(uniqueId) == { i \in DOMAIN jobs : jobs[i].unique_id = uniqueId }

Cursor == getLastProcessedBlock(chain_state, SourceChain)

Abandoned(r) == r.status = "failed" /\ r.retry_count = maxRetries

Surviving == { i \in DOMAIN jobs : i \in DOMAIN jobs' }

\* a step of QueryReturns or QueryFails: a pending query has gone and the
\* process lives on
SweepSettles == Len(ticks') < Len(ticks) /\ phase' # "down"

ResolvedDestinations ==
  LET d == resolveStatic(Destinations, SourceChain) IN { d[k] : k \in DOMAIN d }

\* the status graph of the specification, section 4.3
GraphEdges ==
  { <<"pending", "proof_requested">>, <<"pending", "executing">>,
    <<"proof_requested", "proof_ready">>, <<"proof_ready", "executing">>,
    <<"executing", "completed">>, <<"proof_requested", "failed">>,
    <<"executing", "failed">>, <<"failed", "pending">>, <<"failed", "proof_ready">> }

\* the same graph with pending -> proof_ready in the place of pending -> executing
CodeEdges ==
  (GraphEdges \ { <<"pending", "executing">> }) \cup { <<"pending", "proof_ready">> }

---------------------------------------------------------------------------
\* C1: the jobs table never holds two rows with the same unique_id, and a
\* sweep that settles leaves every row that already existed exactly as it was
\* (a re-observed event adds no row and does not touch its row's status).
C1_OneRowPerUniqueId ==
  /\ [](\A u \in AllUniqueIds : Cardinality(RowsWith(u)) <= 1)
  /\ [][SweepSettles => \A i \in DOMAIN jobs : i \in DOMAIN jobs' /\ jobs'[i] = jobs[i]]_vars

\* a sweep has just observed an event again after its job had left pending
C1_Witness ==
  /\ reobserved
  /\ Len(jobs) = 1
  /\ jobs[1].status # "pending"

C3_JobsBeforeCursor ==
  \A e \in ChainEvents : \A d \in ResolvedDestinations :
    (HasChainRow(chain_state, SourceChain) /\ Cursor >= e.blockNumber
       /\ e.blockNumber > initPos)
      => RowsWith(UniqueId(e, d)) # {}

\* C4 as claimed: the persisted cursor of the chain never decreases.
C4_CursorMonotone ==
  [][(HasChainRow(chain_state, SourceChain) /\ HasChainRow(chain_state', SourceChain))
       => Cursor' >= Cursor]_vars

\* C5 as claimed: a sweep whose log query fails leaves the cursor where it was.
C5_FailedSweepKeepsCursor ==
  [][(\E k \in 1..MaxTicks : QueryFails(k)) => chain_state' = chain_state]_vars

C7_RetryAfterDelay ==
  [][\A i \in Surviving :
       (jobs[i].status = "failed" /\ jobs'[i].status # "failed")
         => now >= RetryAt(jobs[i]) + retryDelayMs]_vars

\* C8 as claimed: the destination call of a job is sent at most once.
C8_SentAtMostOnce == \A u \in AllUniqueIds : submitted[u] <= 1

\* C8 as amended: the destination call of a job is sent at most once per
\* attempt, so at most 1 + retry_count times and never more than
\* MAX_RETRIES + 1 times, and it is not sent again once the job is completed.
C8_SentAtMostOncePerAttempt ==
  /\ [](/\ \A u \in AllUniqueIds : submitted[u] <= maxRetries + 1
        /\ \A i \in DOMAIN jobs : submitted[jobs[i].unique_id] <= 1 + jobs[i].retry_count)
  /\ [][\A i \in Surviving :
          jobs[i].status = "completed"
            => submitted'[jobs[i].unique_id] = submitted[jobs[i].unique_id]]_vars

\* the call of one job was sent once in each of its four attempts
C8_Witness ==
  \E i \in DOMAIN jobs :
    submitted[jobs[i].unique_id] = maxRetries + 1 /\ jobs[i].retry_count = maxRetries

\* C9 as claimed: once the relayer is up, every job persisted as
\* proof_requested or executing is held by the Queue (on the work list or in
\* a running handler), which is what driving it to an end requires.
C9_InProgressJobsResumed ==
  phase = "up" =>
    \A i \in DOMAIN jobs :
      jobs[i].status \in {"proof_requested", "executing"}
        => \/ \E h \in inflight : h.job.id = i
           \/ \E k \in DOMAIN queue : queue[k].id = i

\* C10 as claimed: a graceful shutdown leaves the jobs and chain_state rows in place.
C10_ShutdownKeepsRows ==
  [][Stop => (jobs' = jobs /\ chain_state' = chain_state)]_vars

\* C11: once a row is completed, or failed with retry_count = MAX_RETRIES,
\* no step of the Listener, the Queue or the Executor changes any of its fields.
C11_TerminalRowsFrozen ==
  [][\A i \in Surviving :
       (jobs[i].status = "completed" \/ Abandoned(jobs[i])) => jobs'[i] = jobs[i]]_vars

\* the Listener has just met the event of a completed job again
C11_Witness ==
  /\ reobserved
  /\ \E i \in DOMAIN jobs : jobs[i].status = "completed"

\* C12: in a run without crash or shutdown in which the queue timer keeps
\* firing and every proof and executor call settles, every job that exists
\* eventually is completed or is failed with retry_count = MAX_RETRIES.
C12_JobsReachAnEnd ==
  \A u \in AllUniqueIds :
    (RowsWith(u) # {})
      ~> (\E i \in RowsWith(u) : jobs[i].status = "completed" \/ Abandoned(jobs[i]))

\* the queue has driven a job to the end of its retry budget and holds nothing more
C12_Witness ==
  /\ phase = "up" /\ queue = <<>> /\ inflight = {}
  /\ \E i \in DOMAIN jobs : Abandoned(jobs[i])

\* C13 as claimed: the range of every sweep ends at most 99 blocks after its
\* first block, so one tick covers at most 100 blocks.
C13_AtMostHundredBlocks ==
  \A k \in DOMAIN ticks : ticks[k].toBlock - ticks[k].fromBlock + 1 <= sweepSpan

\* C14: in every state and for every job, completed_at is set exactly when
\* the status is completed, and a completed job carries a dest_tx_hash.
C14_CompletedAtIffCompleted ==
  \A i \in DOMAIN jobs :
    /\ (jobs[i].completed_at # {}) <=> (jobs[i].status = "completed")
    /\ jobs[i].status = "completed" => jobs[i].dest_tx_hash

\* a job completed in a later attempt, after an earlier one had failed
C14_Witness ==
  \E i \in DOMAIN jobs :
    /\ jobs[i].status = "completed" /\ jobs[i].error_message
    /\ jobs[i].completed_at # {} /\ jobs[i].dest_tx_hash

\* C15: in every state, every row with proof_required set whose status is
\* proof_ready, executing or completed has proof_data stored, also after a
\* retry and after the queue was reloaded from the store.
C15_ProofStoredBeforeExecution ==
  \A i \in DOMAIN jobs :
    (jobs[i].proof_required /\ jobs[i].status \in {"proof_ready", "executing", "completed"})
      => jobs[i].proof_data

\* a proof-required job that failed in execution was re-admitted at proof_ready
C15_Witness ==
  \E i \in DOMAIN jobs :
    /\ jobs[i].proof_required /\ jobs[i].proof_data
    /\ jobs[i].status = "proof_ready" /\ jobs[i].retry_count > 0

C17_HandlerErrorFailsOnlyItsJob ==
  [][\A h \in inflight :
       (ProofFails(h) \/ ExecRejected(h) \/ ExecReverted(h))
         => /\ jobs'[h.job.id].status = "failed"
            /\ jobs'[h.job.id].error_message
            /\ Len(queue') = Len(queue) + 1
            /\ SubSeq(queue', 1, Len(queue)) = queue
            /\ queue'[Len(queue')].id = h.job.id
            /\ queue'[Len(queue')].status = "failed"
            /\ \A j \in DOMAIN jobs : j # h.job.id => jobs'[j] = jobs[j]
            /\ DOMAIN jobs' = DOMAIN jobs
            /\ inflight' = inflight \ {h}]_vars

\* one job has failed and waits on the work list while the handler of the
\* other job, dispatched in the same tick, is still running
C17_Witness ==
  \E i, j \in DOMAIN jobs :
    /\ i # j
    /\ jobs[i].status = "failed" /\ jobs[i].error_message
    /\ \E k \in DOMAIN queue : queue[k].id = i /\ queue[k].status = "failed"
    /\ jobs[j].status \in {"proof_requested", "executing"}
    /\ \E h \in inflight : h.job.id = j

PendingLike == {"pending", "initialized", "unknown"}

\* C18 as claimed: a polymer_queryProof response with status error ends the
\* poll at once with a failure; the loop does not go on after it.
C18_ErrorStatusEndsPolling ==
  poll.last = "error" => poll.outcome = "gave_up"

\* C19: one requestProof call makes at most 30 polymer_queryProof calls, one
\* per attempt; a response initialized, pending or unknown continues the loop
\* until the 30th, after which the call fails with the polling timeout; a
\* proof is returned only after a complete response that carries a proof.
C19_PollingBounded ==
  /\ poll.calls <= maxPollingAttempts
  /\ poll.outcome = "polling" => (poll.calls = poll.attempt - 1 /\ poll.attempt <= maxPollingAttempts)
  /\ poll.outcome = "proof" => poll.last = "complete"
  /\ poll.last = "complete" => poll.outcome = "proof"
  /\ poll.last \in PendingLike
       => poll.outcome = (IF poll.calls < maxPollingAttempts THEN "polling" ELSE "timeout")
  /\ poll.outcome \in {"timeout", "gave_up"} => poll.calls = maxPollingAttempts

\* thirty polls were answered pending and the call ended in the polling timeout
C19_Witness ==
  /\ poll.outcome = "timeout"
  /\ poll.calls = maxPollingAttempts
  /\ poll.last = "pending"

\* C20: no sweep queries a block above the head it fetched minus the
\* confirmations; the cursor is only ever set to the head just fetched minus
\* the confirmations or to the last block of such a sweep, so it never passes
\* the highest head seen minus the confirmations; with confirmations = 0 a
\* sweep ends at the head it fetched unless the per-tick cap ends it earlier.
C20_SweepStaysBehindHead ==
  /\ [](/\ \A k \in DOMAIN ticks :
             /\ ticks[k].currentBlock <= head
             /\ ticks[k].toBlock <= ticks[k].currentBlock - confirmations
             /\ confirmations = 0
                  => \/ ticks[k].toBlock = ticks[k].currentBlock
                     \/ ticks[k].toBlock - ticks[k].fromBlock + 1 >= sweepSpan
        /\ HasChainRow(chain_state, SourceChain) => Cursor <= head - confirmations)
  /\ [][(HasChainRow(chain_state', SourceChain) /\ chain_state' # chain_state)
          => \/ Cursor' = head - confirmations
             \/ \E k \in DOMAIN ticks : Cursor' = ticks[k].toBlock]_vars

\* without confirmations a sweep has taken the cursor to the head itself
C20_Witness ==
  /\ confirmations = 0
  /\ lastSweep = "ok"
  /\ HasChainRow(chain_state, SourceChain)
  /\ Cursor = head
  /\ Cursor > initPos

\* C21 as claimed: while the head is not above the confirmation depth, no
\* log query is pending and the cursor is still where the initialisation put it.
C21_NoSweepBelowThreshold ==
  head <= confirmations
    => /\ ticks = <<>>
       /\ HasChainRow(chain_state, SourceChain) => Cursor = initPos

\* C22 as claimed: no sweep starts at or below the position the
\* initialisation wrote, and a start that finds a persisted cursor of any
\* value leaves it as it is.
C22_PersistedCursorKept ==
  /\ [](\A k \in DOMAIN ticks : ticks[k].fromBlock > initPos)
  /\ [][(ListenerInit /\ HasChainRow(chain_state, SourceChain))
          => chain_state' = chain_state]_vars

----------------------------------------------------------------------------
\* The listener under the resolver configurations validateConfig admits, and
\* with logs of two mappings

Bigint(n) == [kind |-> "bigint", n |-> n, s |-> ""]

String(s) == [kind |-> "string", n |-> 0, s |-> s]

\* destinationResolvers entries of type static: the documented one, one that
\* names only the source chain, two that name a chain on which the
\* destination contract has no deployment, and one that names no chain
StaticResolvers ==
  { [StaticResolver EXCEPT !.destinations = d] :
      d \in { Destinations, <<"A">>, <<"C", "B">>, <<"B", "C">>, <<>> } }

\* destinationResolvers entries of type eventParameter, with and without a
\* mapping table
ParameterResolvers ==
  { [ type |-> "eventParameter", destinations |-> <<>>, parameterName |-> "destinationChainId",
      hasMapping |-> m, mapping |-> IF m THEN [c \in {"1"} |-> "B"] ELSE <<>> ] :
      m \in BOOLEAN }

\* the decoded arguments of a log: a chain id, a chain name, or no destinationChainId
EventArguments ==
  { [destinationChainId |-> Bigint(1)], [destinationChainId |-> Bigint(2)], [destinationChainId |-> String("B")],
    [amount |-> Bigint(1)] }

ArgumentEvents ==
  { { [transactionHash |-> "0xaa", index |-> 0, blockNumber |-> 2, args |-> a0],
      [transactionHash |-> "0xaa", index |-> 1, blockNumber |-> 2, args |-> a1] } :
      a0 \in EventArguments, a1 \in EventArguments }

RouteInit ==
  /\ phase = "down"
  /\ head = 1
  /\ now = 0
  /\ proofRequired = FALSE
  /\ confirmations = blockConfirmations
  /\ \/ resolver \in StaticResolvers /\ emitted = TwoEvents
     \/ resolver \in ParameterResolvers /\ emitted \in ArgumentEvents
     \/ resolver = StaticResolver /\ emitted = MappedEvents
  /\ encoding = NoEncoding
  /\ swept = NoSweeps
  /\ runner = Constructed
  /\ poll = PollIdle
  /\ chain_state = {}
  /\ jobs = <<>>
  /\ queue = <<>>
  /\ inflight = {}
  /\ ticks = <<>>
  /\ initPos = 0
  /\ reobserved = FALSE
  /\ lastSweep = "none"
  /\ submitted = [u \in MoreUniqueIds |-> 0]
  /\ failedAttempts = [u \in MoreUniqueIds |-> 0]

RouteNext ==
  \/ HeadGrows
  \/ Start
  \/ ListenerInit
  \/ InitialPoll
  \/ PollForEvents
  \/ \E k \in 1..MaxTicks : QueryReturns(k)
  \/ QueueTick
  \/ \E h \in inflight : ExecSends(h)
  \/ \E h \in inflight : ExecConfirmed(h)

RouteSpec == RouteInit /\ [][RouteNext]_vars

\* the logs a pending sweep asks for
Swept(k) ==
  { e \in emitted : ticks[k].fromBlock <= e.blockNumber /\ e.blockNumber <= ticks[k].toBlock }

\* the rows that stem from an event, after the step
RowsOf(event) ==
  { i \in DOMAIN jobs' : SubSeq(jobs'[i].unique_id, 1, 3) = BaseJobId(event) }

RowsFor(event, destChain) ==
  { i \in DOMAIN jobs' : jobs'[i].unique_id = UniqueId(event, destChain) }

Chains(s) == { s[i] : i \in DOMAIN s }

\* C23 as claimed: when a sweep has handled an event whose destinations
\* resolved to D, every chain of D for which a job can be built has exactly one
\* job of the event, whatever happened to the other chains of D, and no job of
\* the event is for a chain outside D.
C23_OneJobPerResolvedChain ==
  [][\A k \in DOMAIN ticks : QueryReturns(k) =>
       \A e \in Swept(k) :
         LET D == resolveDestinations(resolver, e, SourceChain) IN
         D.ok => /\ \A d \in Chains(D.chains) \cap DestDeployed :
                      Cardinality(RowsFor(e, d)) = 1
                 /\ \A i \in RowsOf(e) : jobs'[i].unique_id[4] \in Chains(D.chains)]_vars

\* how many of the first j configured destinations are not the source chain
Kept(destinations, j) == Cardinality({ m \in 1..j : destinations[m] # SourceChain })

\* out is the configured list without the source chain, in configured order
SourceRemoved(destinations, out) ==
  /\ Len(out) = Kept(destinations, Len(destinations))
  /\ \A j \in DOMAIN destinations :
       destinations[j] # SourceChain => out[Kept(destinations, j)] = destinations[j]
  /\ \A i \in DOMAIN out : out[i] # SourceChain

\* a sweep that resolves every event to no chain creates no job
EmptyResultCreatesNoJob ==
  [][\A k \in DOMAIN ticks :
       (/\ QueryReturns(k)
        /\ resolver.type = "static"
        /\ \A j \in DOMAIN resolver.destinations : resolver.destinations[j] = SourceChain)
         => jobs' = jobs /\ queue' = queue]_vars

\* C24 as claimed: for every static resolver the result is the configured
\* list without the source chain, in configured order, obtained without an
\* error; an empty result creates no job.
C24_StaticAsClaimed ==
  /\ [](resolver.type = "static" =>
          \A e \in emitted :
            LET D == resolveDestinations(resolver, e, SourceChain) IN
            D.ok /\ SourceRemoved(resolver.destinations, D.chains))
  /\ EmptyResultCreatesNoJob

\* C24: for a static resolver that names at least one chain the result is the
\* configured list without the source chain, in configured order, obtained
\* without an error; an empty result creates no job.
C24_StaticSourceRemoved ==
  /\ []((resolver.type = "static" /\ resolver.destinations # <<>>) =>
          \A e \in emitted :
            LET D == resolveDestinations(resolver, e, SourceChain) IN
            D.ok /\ SourceRemoved(resolver.destinations, D.chains))
  /\ EmptyResultCreatesNoJob

\* the only configured destination is the source chain; the sweep over the
\* block of the events has settled and the job store is empty
C24_Witness ==
  /\ resolver.type = "static"
  /\ resolver.destinations = <<SourceChain>>
  /\ ticks = <<>>
  /\ lastSweep = "ok"
  /\ initPos < 2
  /\ Cursor >= 2
  /\ jobs = <<>>

\* the value of the resolver's parameter in the event can be turned into a chain
Resolvable(e) ==
  /\ resolver.parameterName \in DOMAIN e.args
  /\ resolver.hasMapping =>
       toString(e.args[resolver.parameterName]) \in DOMAIN resolver.mapping

\* the chain an event_parameter resolver is to name for the event
Target(e) ==
  IF resolver.hasMapping
  THEN resolver.mapping[toString(e.args[resolver.parameterName])]
  ELSE toString(e.args[resolver.parameterName])

\* C25: an event_parameter resolver names the single chain the mapping table
\* gives for the stringified parameter, or the stringified parameter itself when
\* there is no table; an event without the parameter or without a table entry
\* fails to resolve and gets no job, while every other event of the same sweep
\* gets its job.
C25_ParameterResolver ==
  /\ [](resolver.type = "eventParameter" =>
          \A e \in emitted :
            LET D == resolveDestinations(resolver, e, SourceChain) IN
            IF Resolvable(e) THEN D.ok /\ D.chains = <<Target(e)>> ELSE ~D.ok)
  /\ [][\A k \in DOMAIN ticks :
          (QueryReturns(k) /\ resolver.type = "eventParameter") =>
            \A e \in Swept(k) :
              IF Resolvable(e)
              THEN /\ Target(e) \in DestDeployed => Cardinality(RowsFor(e, Target(e))) = 1
                   /\ \A i \in RowsOf(e) : jobs'[i].unique_id[4] = Target(e)
              ELSE RowsOf(e) = {}]_vars

\* the first log of the block has no entry in the mapping table and the second
\* one has: only the second one has a job
C25_Witness ==
  /\ resolver.type = "eventParameter"
  /\ resolver.hasMapping
  /\ \E bad \in emitted, good \in emitted :
       /\ bad.index < good.index
       /\ resolver.parameterName \in DOMAIN bad.args
       /\ ~Resolvable(bad)
       /\ Resolvable(good)
       /\ RowsWith(UniqueId(good, "B")) # {}
       /\ \A i \in DOMAIN jobs : SubSeq(jobs[i].unique_id, 1, 3) # BaseJobId(bad)

\* the log a row stems from
EventOf(row) == CHOOSE e \in emitted : BaseJobId(e) = SubSeq(row.unique_id, 1, 3)

\* C26 as claimed: of any two rows of the job store, the one with the smaller
\* id stems from the log with the smaller or equal (block number, log index).
C26_JobsInLogOrder ==
  \A i \in DOMAIN jobs, j \in DOMAIN jobs :
    i < j => EventKeyLess(EventOf(jobs[i]), EventOf(jobs[j]))

\* C27 as claimed: when the graceful shutdown closes the job store and ends
\* the process, no dispatched handler is still unsettled.
C27_ShutdownDrainsHandlers ==
  [][Stop => inflight = {}]_vars

\* the status path of a job that meets no failure
HappyPath ==
  { <<"pending", "proof_requested">>, <<"proof_requested", "proof_ready">>,
    <<"proof_ready", "executing">>, <<"executing", "completed">> }

\* the handlers that go on to proofService.requestProof, dispatched by the step
ProofRequestsMade == { h \in inflight' \ inflight : h.kind = "proof" }

\* C28: a proof-required job none of whose handlers has failed changes its
\* persisted status only along pending, proof_requested, proof_ready,
\* executing, completed and keeps retry_count 0; its proof is requested once,
\* in the step from pending to proof_requested, and the Executor has been
\* called once when it is completed and not before it is executing.
C28_HappyPath ==
  /\ [][\A i \in Surviving :
          (/\ jobs[i].proof_required
           /\ failedAttempts'[jobs[i].unique_id] = 0
           /\ jobs'[i].status # jobs[i].status)
            => <<jobs[i].status, jobs'[i].status>> \in HappyPath]_vars
  /\ [][\A i \in DOMAIN jobs' : i \notin DOMAIN jobs => jobs'[i].status = "pending"]_vars
  /\ [][\A i \in Surviving :
          (jobs[i].proof_required /\ failedAttempts'[jobs[i].unique_id] = 0)
            => Cardinality({ h \in ProofRequestsMade : h.job.id = i })
                 = IF jobs[i].status = "pending" /\ jobs'[i].status = "proof_requested"
                   THEN 1 ELSE 0]_vars
  /\ [](\A i \in DOMAIN jobs :
          (jobs[i].proof_required /\ failedAttempts[jobs[i].unique_id] = 0)
            => /\ jobs[i].retry_count = 0
               /\ submitted[jobs[i].unique_id] <= 1
               /\ jobs[i].status \in {"pending", "proof_requested", "proof_ready"}
                    => submitted[jobs[i].unique_id] = 0
               /\ jobs[i].status = "completed" => submitted[jobs[i].unique_id] = 1)

\* a proof-required job has completed without a failure and with one
\* Executor call
C28_Witness ==
  \E i \in DOMAIN jobs :
    /\ jobs[i].proof_required
    /\ jobs[i].status = "completed"
    /\ jobs[i].proof_data
    /\ jobs[i].retry_count = 0
    /\ failedAttempts[jobs[i].unique_id] = 0
    /\ submitted[jobs[i].unique_id] = 1

\* C29 as claimed: a tick of the queue that finds jobs to dispatch finds no
\* handler of an earlier tick unsettled.
C29_TicksDoNotOverlap ==
  [][(QueueTick /\ queue # <<>>) => inflight = {}]_vars

----------------------------------------------------------------------------
\* The queue after a sweep that found six logs, every network call succeeding

BurstInit ==
  /\ phase = "down"
  /\ head = 1
  /\ now = 0
  /\ proofRequired = TRUE
  /\ confirmations = blockConfirmations
  /\ emitted = BurstEvents
  /\ resolver = StaticResolver
  /\ encoding = NoEncoding
  /\ swept = NoSweeps
  /\ runner = Constructed
  /\ poll = PollIdle
  /\ chain_state = {}
  /\ jobs = <<>>
  /\ queue = <<>>
  /\ inflight = {}
  /\ ticks = <<>>
  /\ initPos = 0
  /\ reobserved = FALSE
  /\ lastSweep = "none"
  /\ submitted = [u \in MoreUniqueIds |-> 0]
  /\ failedAttempts = [u \in MoreUniqueIds |-> 0]

BurstNext ==
  \/ HeadGrows
  \/ Start
  \/ ListenerInit
  \/ InitialPoll
  \/ \E k \in 1..MaxTicks : QueryReturns(k)
  \/ QueueTick
  \/ \E h \in inflight : ProofSucceeds(h)
  \/ \E h \in inflight : ExecSends(h)
  \/ \E h \in inflight : ExecConfirmed(h)

BurstSpec == BurstInit /\ [][BurstNext]_vars

\* C30 as claimed: at most five handlers of the queue are in flight.
C30_AtMostFiveInFlight ==
  Cardinality(inflight) <= concurrentLimit

----------------------------------------------------------------------------
\* the jobs a processQueue run of this step splices off the work list
Taken ==
  LET list == IF phase = "down" THEN getPendingJobs(jobs) ELSE queue
  IN  SubSeq(list, 1, Min(concurrentLimit, Len(list)))

\* the handler of the job's status has run in this step
HandlerRan(job) ==
  CASE job.status \in {"pending", "proof_requested"} ->
         IF job.proof_required
         THEN \E h \in inflight' : h.kind = "proof" /\ h.job.id = job.id
         ELSE jobs'[job.id].status = "proof_ready"
    [] job.status = "proof_ready" ->
         \E h \in inflight' : h.kind = "exec" /\ h.job.id = job.id
    [] job.status = "failed" ->
         \/ RetriesExhausted(job)
         \/ \E k \in DOMAIN queue' : queue'[k].id = job.id
    [] OTHER -> TRUE

\* C31 as claimed: every job a tick takes from the work list in status
\* pending, proof_requested, proof_ready or failed has had its handler run:
\* the proof handler for pending and proof_requested, the execute handler for
\* proof_ready, the retry handler for failed.
C31_DispatchedByStatus ==
  [][(Start \/ QueueTick) => \A k \in DOMAIN Taken : HandlerRan(Taken[k])]_vars

\* the rows the step takes out of failed
Readmitted == { i \in Surviving : jobs[i].status = "failed" /\ jobs'[i].status # "failed" }

\* C32 as claimed: a failed job of any kind is re-admitted as pending when
\* no proof_data is stored for it and as proof_ready when proof_data is stored.
C32_ReentryByProofData ==
  [][\A i \in Readmitted :
       jobs'[i].status = IF jobs[i].proof_data THEN "proof_ready" ELSE "pending"]_vars

\* C32: a failed job is re-admitted as pending when it requires a proof and
\* no proof_data is stored for it, and as proof_ready otherwise.
C32_ReentryByMissingProof ==
  [][\A i \in Readmitted :
       jobs'[i].status = IF jobs[i].proof_required /\ ~jobs[i].proof_data
                         THEN "pending" ELSE "proof_ready"]_vars

\* a job that requires no proof and has none stored was re-admitted at
\* proof_ready, and a job that lacks its required proof at pending
C32_Witness ==
  \E i \in DOMAIN jobs :
    /\ ~jobs[i].proof_data
    /\ jobs[i].retry_count = 1
    /\ failedAttempts[jobs[i].unique_id] = 1
    /\ \/ ~jobs[i].proof_required /\ jobs[i].status = "proof_ready"
       \/ jobs[i].proof_required /\ jobs[i].status = "pending"

\* the rows that wait for a handler and have none in flight
Waiting ==
  { i \in DOMAIN jobs :
      /\ jobs[i].status \in {"pending", "proof_requested", "proof_ready"}
      /\ \A h \in inflight : h.job.id # i }

\* C33 as claimed: whenever the queue is ticking and the work list is empty,
\* the tick that comes puts on the list every retryable failed row and every
\* row in pending, proof_requested or proof_ready that no handler is working on.
C33_EmptyListReloads ==
  (phase \in {"lpoll", "lwait", "up"} /\ queue = <<>>) =>
    LET reloaded == processQueue(QueueState).queue IN
    /\ \A i \in Waiting : \E k \in DOMAIN reloaded : reloaded[k].id = i
    /\ \A i \in DOMAIN jobs :
         (jobs[i].status = "failed" /\ jobs[i].retry_count < maxRetries)
           => \E k \in DOMAIN reloaded : reloaded[k].id = i

\* C34: one requestProof call makes at most retry_attempts polymer_requestProof
\* calls, one per attempt; after the failed attempt n < retry_attempts it waits
\* 2^(n-1) seconds (1, 2, 4, ...); it polls only after a response with a
\* numeric jobID, which ends the request phase; and after retry_attempts
\* failed attempts it fails without having polled.
C34_RequestPhase ==
  LET r == poll.request IN
  /\ r.calls <= r.retryAttempts
  /\ poll.outcome = "requesting" => (r.calls = r.attempt - 1 /\ r.attempt <= r.retryAttempts)
  /\ poll.outcome = "backoff"
       => /\ r.last # "jobID"
          /\ r.calls = r.attempt
          /\ r.attempt < r.retryAttempts
          /\ r.delay = CASE r.attempt = 1 -> 1000
                         [] r.attempt = 2 -> 2000
                         [] r.attempt = 3 -> 4000
                         [] r.attempt = 4 -> 8000
                         [] OTHER -> 1000 * 2 ^ (r.attempt - 1)
  /\ poll.outcome \in {"polling", "proof", "timeout", "gave_up"} => r.last = "jobID"
  /\ r.last = "jobID" => poll.outcome \in {"polling", "proof", "timeout", "gave_up"}
  /\ poll.calls > 0 => r.last = "jobID"
  /\ poll.outcome = "request_failed"
       => /\ r.calls = r.retryAttempts
          /\ r.last # "jobID"
          /\ poll.calls = 0

\* the third attempt got a jobID after two failures and a backoff of 2 seconds
C34_Witness ==
  /\ poll.outcome = "polling"
  /\ poll.request.calls = 3
  /\ poll.request.delay = 2000
  /\ poll.request.last = "jobID"

----------------------------------------------------------------------------
\* ExecutorService.encodeParametersFromEventData.  A parameter is [name, type],
\* the event arguments are a list of [name, value] in the order of the event,
\* every value is written as the text of its literal.

MaxInputs == 2

\* type.startsWith('uint') || type.startsWith('int')
IsInteger(type) == type \in {"uint256", "int64"}

\* type === 'bytes' || type.startsWith('bytes')
IsBytes(type) == type \in {"bytes", "bytes32"}

getDefaultValue(type) ==
  IF IsInteger(type) THEN "0"
  ELSE IF type = "address" THEN "0x0000000000000000000000000000000000000000"
  ELSE IF type = "bool" THEN "false"
  ELSE IF IsBytes(type) THEN "0x"
  ELSE IF type = "string" THEN ""
  ELSE "0x"

\* eventData.args[name] !== undefined
HasArg(args, name) == \E i \in DOMAIN args : args[i].name = name

ArgOf(args, name) == args[CHOOSE i \in DOMAIN args : args[i].name = name].value

Pushed(value) == [ok |-> TRUE, value |-> value]

Thrown == [ok |-> FALSE, value |-> ""]

\* the body of for (const input of inputs)
encodeInput(input, inputs, args, proof) ==
  IF input.name = "proof" /\ input.type = "bytes"
  THEN IF proof THEN Pushed("0xproof") ELSE Thrown
  ELSE IF input.name = "key" /\ input.type = "string"
  THEN IF HasArg(args, "key") THEN Pushed(ArgOf(args, "key")) ELSE Thrown
  ELSE IF input.name = "value" /\ input.type = "bytes"
  THEN IF HasArg(args, "value") THEN Pushed(ArgOf(args, "value")) ELSE Thrown
  ELSE IF HasArg(args, input.name) THEN Pushed(ArgOf(args, input.name))
  ELSE \* Object.values(eventArgs).find((value, index) => index < inputs.length)
       IF \E index \in DOMAIN args : index - 1 < Len(inputs)
       THEN Pushed(args[1].value)
       ELSE Pushed(getDefaultValue(input.type))

RECURSIVE encodeFrom(_, _, _, _, _)
encodeFrom(k, values, inputs, args, proof) ==
  IF k > Len(inputs) THEN [outcome |-> "values", values |-> values]
  ELSE LET v == encodeInput(inputs[k], inputs, args, proof) IN
       IF v.ok THEN encodeFrom(k + 1, Append(values, v.value), inputs, args, proof)
       ELSE [outcome |-> "throws", values |-> <<>>]

encodeParametersFromEventData(inputs, args, proof) == encodeFrom(1, <<>>, inputs, args, proof)

\* the parameters a methodSignature can declare
Parameters ==
  { [name |-> "proof", type |-> "bytes"], [name |-> "key", type |-> "string"],
    [name |-> "value", type |-> "bytes"], [name |-> "user", type |-> "address"],
    [name |-> "amount", type |-> "uint256"], [name |-> "active", type |-> "bool"],
    [name |-> "memo", type |-> "string"], [name |-> "messageId", type |-> "bytes32"] }

InputLists == UNION { [1..n -> Parameters] : n \in 1..MaxInputs }

\* the decoded arguments of the event the job stems from
ArgumentLists ==
  { <<>>,
    <<[name |-> "key", value |-> "k"], [name |-> "value", value |-> "0x1234"]>>,
    <<[name |-> "user", value |-> "0xab"], [name |-> "amount", value |-> "7"]>>,
    <<[name |-> "amount", value |-> "7"]>>,
    <<[name |-> "memo", value |-> "hello"], [name |-> "active", value |-> "true"]>> }

EncodeInit ==
  /\ phase = "down"
  /\ head = 1
  /\ now = 0
  /\ proofRequired = TRUE
  /\ confirmations = blockConfirmations
  /\ emitted = ChainEvents
  /\ resolver = StaticResolver
  /\ swept = NoSweeps
  /\ runner = Constructed
  /\ encoding \in { [NoEncoding EXCEPT !.inputs = i, !.args = a, !.proof = p] :
                      i \in InputLists, a \in ArgumentLists, p \in BOOLEAN }
  /\ poll = PollIdle
  /\ chain_state = {}
  /\ jobs = <<>>
  /\ queue = <<>>
  /\ inflight = {}
  /\ ticks = <<>>
  /\ initPos = 0
  /\ reobserved = FALSE
  /\ lastSweep = "none"
  /\ submitted = [u \in AllUniqueIds |-> 0]
  /\ failedAttempts = [u \in AllUniqueIds |-> 0]

\* prepareTransactionData with a methodSignature
PrepareTransactionData ==
  /\ encoding.outcome = "idle"
  /\ LET result == encodeParametersFromEventData(encoding.inputs, encoding.args,
                                                 encoding.proof)
     IN  encoding' = [encoding EXCEPT !.outcome = result.outcome, !.values = result.values]
  /\ UNCHANGED <<phase, head, now, proofRequired, confirmations, emitted, resolver, swept, runner, poll,
                 chain_state, jobs, queue, inflight, ticks, initPos, reobserved, lastSweep,
                 submitted, failedAttempts>>

\* executeTransaction goes on with the values, or fails with the error
EncodingUsed ==
  /\ encoding.outcome # "idle"
  /\ encoding' = [encoding EXCEPT !.outcome = "idle", !.values = <<>>]
  /\ UNCHANGED <<phase, head, now, proofRequired, confirmations, emitted, resolver, swept, runner, poll,
                 chain_state, jobs, queue, inflight, ticks, initPos, reobserved, lastSweep,
                 submitted, failedAttempts>>

EncodeNext == PrepareTransactionData \/ EncodingUsed

EncodeSpec == EncodeInit /\ [][EncodeNext]_vars

\* the zero value of a parameter type
ZeroValue(type) ==
  CASE type \in {"uint256", "int64"} -> "0"
    [] type = "address" -> "0x0000000000000000000000000000000000000000"
    [] type \in {"bytes", "bytes32"} -> "0x"
    [] type = "string" -> ""
    [] type = "bool" -> "false"

IsProofParameter(input) == input.name = "proof" /\ input.type = "bytes"

\* C35 as claimed: the call fails exactly when a proof parameter has no
\* proof to take; otherwise the value of every parameter is the proof for a
\* proof parameter, else the event argument of the parameter's name when there
\* is one, else the zero value of the parameter's type.
C35_ParameterSelection ==
  encoding.outcome # "idle" =>
    IF \E k \in DOMAIN encoding.inputs : IsProofParameter(encoding.inputs[k]) /\ ~encoding.proof
    THEN encoding.outcome = "throws"
    ELSE /\ encoding.outcome = "values"
         /\ Len(encoding.values) = Len(encoding.inputs)
         /\ \A k \in DOMAIN encoding.inputs :
              encoding.values[k] =
                IF IsProofParameter(encoding.inputs[k]) THEN "0xproof"
                ELSE IF HasArg(encoding.args, encoding.inputs[k].name)
                     THEN ArgOf(encoding.args, encoding.inputs[k].name)
                     ELSE ZeroValue(encoding.inputs[k].type)

\* two events, handlers that fail, and a process that crashes and is started again
RestartNext ==
  \/ HeadGrows
  \/ Start
  \/ Crash
  \/ ListenerInit
  \/ InitialPoll
  \/ \E k \in 1..MaxTicks : QueryReturns(k)
  \/ QueueTick
  \/ \E h \in inflight : ProofSucceeds(h)
  \/ \E h \in inflight : ProofFails(h)
  \/ \E h \in inflight : ExecSends(h)
  \/ \E h \in inflight : ExecRejected(h)
  \/ \E h \in inflight : ExecConfirmed(h)
  \/ \E h \in inflight : ExecReverted(h)

RestartSpec == TwoInit /\ [][RestartNext]_vars

\* the in-memory copies of job i: entries of the work list and handlers in flight
CopiesOf(i) ==
  Cardinality({ k \in DOMAIN queue : queue[k].id = i })
    + Cardinality({ h \in inflight : h.job.id = i })

\* C36: every job id has at most one in-memory copy among the work list and
\* the handlers in flight, so no two handlers process the same job at once.
C36_OneCopyInMemory == \A i \in DOMAIN jobs : CopiesOf(i) <= 1

\* a handler is in flight while the work list holds another job, failed, as
\* the store returned it on an empty tick
C36_Witness ==
  \E h \in inflight : \E k \in DOMAIN queue :
    /\ queue[k].status = "failed"
    /\ queue[k] = JobObject(jobs, queue[k].id)
    /\ queue[k].id # h.job.id
    /\ CopiesOf(queue[k].id) = 1
    /\ CopiesOf(h.job.id) = 1

\* C37: once proof_data is persisted for a job, no step starts a proof
\* request for that job, and a retry that re-admits it moves it to proof_ready
\* with the stored proof kept.
C37_StoredProofReused ==
  [][\A i \in Surviving :
       jobs[i].proof_data =>
         /\ ~\E h \in inflight' : h.kind = "proof" /\ h.job.id = i
         /\ jobs'[i].proof_data
         /\ i \in Readmitted => jobs'[i].status = "proof_ready"]_vars

\* a job whose transaction was sent and failed is back at proof_ready after a
\* retry, with its proof stored
C37_Witness ==
  \E i \in DOMAIN jobs :
    /\ jobs[i].proof_required /\ jobs[i].proof_data
    /\ jobs[i].status = "proof_ready"
    /\ jobs[i].retry_count >= 1
    /\ submitted[jobs[i].unique_id] >= 1
    /\ \E k \in DOMAIN queue : queue[k].id = i /\ queue[k].proof_data

\* C38 as claimed: every sweep tick starts at the block after the persisted
\* cursor, and every block above the position the first start wrote and at or
\* below the cursor lies in the range of a completed sweep tick.
C38_NoGaps ==
  /\ [](HasChainRow(chain_state, SourceChain)
          => \A b \in (swept.origin + 1)..Cursor : b \in swept.blocks)
  /\ [][Len(ticks') > Len(ticks)
          => \E k \in DOMAIN ticks' : ticks'[k].fromBlock = Cursor + 1]_vars

\* the persisted status under which a handler makes its network call
StatusOfCall(h) == IF h.kind = "proof" THEN "proof_requested" ELSE "executing"

\* C39: whenever a call to the proof API or to the executor is in flight for a
\* job, the persisted status of the job is proof_requested or executing
\* respectively, from the start of the call until it settles.
C39_CallsUnderStatus ==
  \A h \in inflight :
    /\ h.job.id \in DOMAIN jobs
    /\ jobs[h.job.id].status = StatusOfCall(h)

\* a retried job has its transaction on the way while a proof call is also
\* possible: the execution of a second attempt is in flight
C39_Witness ==
  \E h \in inflight :
    /\ h.kind = "exec" /\ h.sent
    /\ jobs[h.job.id].retry_count >= 1
    /\ jobs[h.job.id].proof_required
    /\ jobs[h.job.id].status = "executing"

----------------------------------------------------------------------------
\* JobQueue.startProcessing / stopProcessing and ChainListener.startPolling /
\* stopPolling, called in any order on a store with no job and a chain with no
\* new block, so that a tick changes nothing but the history

OtherVars == <<phase, head, now, proofRequired, confirmations, emitted, resolver, encoding,
               swept, poll, chain_state, jobs, queue, inflight, ticks, initPos, reobserved,
               lastSweep, submitted, failedAttempts>>

LifecycleInit ==
  /\ phase = "down"
  /\ head = 1
  /\ now = 0
  /\ proofRequired = TRUE
  /\ confirmations = blockConfirmations
  /\ emitted = ChainEvents
  /\ resolver = StaticResolver
  /\ encoding = NoEncoding
  /\ swept = NoSweeps
  /\ runner = Constructed
  /\ poll = PollIdle
  /\ chain_state = {}
  /\ jobs = <<>>
  /\ queue = <<>>
  /\ inflight = {}
  /\ ticks = <<>>
  /\ initPos = 0
  /\ reobserved = FALSE
  /\ lastSweep = "none"
  /\ submitted = [u \in AllUniqueIds |-> 0]
  /\ failedAttempts = [u \in AllUniqueIds |-> 0]

\* startProcessing / startPolling up to the await of the initial tick
StartCall(c) ==
  /\ runner[c].calls < MaxStartCalls
  /\ runner' = [runner EXCEPT ![c] =
                  IF @.active THEN [@ EXCEPT !.calls = @ + 1]
                  ELSE [@ EXCEPT !.calls = @ + 1, !.active = TRUE, !.starting = @ + 1,
                                 !.stopped = FALSE]]
  /\ UNCHANGED OtherVars

\* the initial tick has settled: the start call goes on to setInterval
InitialTickSettles(c) ==
  /\ runner[c].starting > 0
  /\ runner' = [runner EXCEPT ![c] = [@ EXCEPT !.starting = @ - 1, !.timers = @ + 1,
                                                !.handle = TRUE]]
  /\ UNCHANGED OtherVars

\* a setInterval timer fires and its callback starts a tick
TimerFires(c) ==
  /\ runner[c].timers > 0
  /\ runner' = [runner EXCEPT ![c] = [@ EXCEPT !.ticked = TRUE, !.late = @ \/ runner[c].stopped]]
  /\ UNCHANGED OtherVars

\* stopProcessing / stopPolling
StopCall(c) ==
  /\ runner' = [runner EXCEPT ![c] =
                  IF ~@.active THEN [@ EXCEPT !.stopped = TRUE]
                  ELSE [@ EXCEPT !.active = FALSE, !.stopped = TRUE, !.handle = FALSE,
                                 !.timers = IF runner[c].handle THEN @ - 1 ELSE @]]
  /\ UNCHANGED OtherVars

LifecycleNext ==
  \/ \E c \in Components : StartCall(c)
  \/ \E c \in Components : InitialTickSettles(c)
  \/ \E c \in Components : TimerFires(c)
  \/ \E c \in Components : StopCall(c)

LifecycleSpec == LifecycleInit /\ [][LifecycleNext]_vars

\* C40 as claimed: no timer tick of a component starts after its stop call
\* has returned, whenever the stop was called; and a start call that finds the
\* component running sets no timer and begins no initial tick.
C40_NoTickAfterStop ==
  /\ [](\A c \in Components : ~runner[c].late)
  /\ [][\A c \in Components :
          (runner'[c].calls > runner[c].calls /\ runner[c].active)
            => /\ runner'[c].timers = runner[c].timers
               /\ runner'[c].starting = runner[c].starting]_vars

====
